---- MODULE Spec2Model ----
(***************************************************************************)
(* SmartKitchen front end (frontend/src/App.js): the expiry classifier,    *)
(* the expiry badge, the fetch functions with their failure handling and   *)
(* the five-minute notification refresh set up by the mount effect.        *)
(***************************************************************************)
EXTENDS Integers, Sequences, FiniteSets, TLC

VARIABLES
    clock,      \* the wall clock that new Date() reads, in milliseconds
    expiry,     \* the expiry_date value of the item being looked at
    call,       \* the last getExpiryStatus / getDaysUntilExpiry evaluation
    badge,      \* what the last ExpiryBadge render showed
    phase,      \* "init" before the mount effect ran, "mounted", "unmounted"
    interval,   \* TRUE while the setInterval timer is armed
    sinceTick,  \* milliseconds since the timer was armed or last fired
    elapsed,    \* milliseconds since the mount effect ran
    ticks,      \* timer callbacks run so far
    runs,       \* fetchNotifications invocations so far
    notifReqs,  \* GET /api/notifications/expiring requests in flight
    notifications, inventory, recipes, challenges, deals, wasteItems,
    inflight,   \* requests in flight for the other endpoints
    rescues,    \* clicks on "Rescue Recipes" so far
    toasts,     \* toast.error notices shown, counted by message
    console,    \* console.error messages written
    applied,    \* the request whose response setNotifications took last
    showAddModal, selectedItem, itemForm,   \* the add/edit item modal
    showWasteModal, wasteForm,              \* the waste modal
    srvItems,   \* the store: its inventory items, in creation order
    srvNextId,  \* the store: the id the next created item gets
    writeReqs,  \* POST / PUT / DELETE /api/inventory requests in flight
    wasteReqs,  \* POST /api/waste requests in flight
    nWrites,    \* write requests sent so far
    nEdits,     \* form fields changed so far
    sentSinceOpen, \* create / update requests sent since the modal opened
    sample,     \* where initializeSampleData stands
    srvCounts,  \* the store: how many recipes, challenges and deals it holds
    srvAtMount, \* srvCounts as it was when initializeSampleData began
    srvRecipes, \* the store: its recipe catalog
    invResp,    \* GET /api/inventory responses on their way back
    loading,    \* the loading overlay
    showCameraModal, scannedBarcode,        \* the camera modal
    barcodeReqs \* GET /api/barcode/:code requests in flight

classifyVars == <<clock, expiry, call, badge>>
schedVars == <<phase, interval, sinceTick, elapsed, ticks, runs, notifReqs>>
listVars == <<notifications, inventory, recipes, challenges, deals, wasteItems>>
fetchVars == <<inflight, rescues, toasts, console>>
uiVars == <<showAddModal, selectedItem, itemForm, showWasteModal, wasteForm>>
storeVars == <<srvItems, srvNextId>>
reqVars == <<writeReqs, wasteReqs, nWrites, sentSinceOpen>>
sampleVars == <<sample, srvCounts, srvAtMount, srvRecipes>>
flowVars == <<invResp, loading, showCameraModal, barcodeReqs>>
extraVars ==
    <<uiVars, storeVars, reqVars, nEdits, sampleVars, flowVars, scannedBarcode>>
vars == <<classifyVars, schedVars, listVars, fetchVars, applied, extraVars>>

----------------------------------------------------------------------------
(* Bounds of the classifier model *)

MaxDay == 6             \* expiry dates fall on calendar days 0..MaxDay
MaxNowHour == 3         \* the clock starts within the first hours of NowDay
MaxClockSteps == 4      \* whole hours the clock may advance

NowDay == 2             \* the calendar day the clock starts in
ClockStep == 1000 * 60 * 60
ExpiryHours == {0, 2, 23}

----------------------------------------------------------------------------
(* JavaScript values: numbers, NaN and null share one record shape *)

Num(n) == [k |-> "num", v |-> n]
NaN == [k |-> "nan", v |-> 0]
Null == [k |-> "null", v |-> 0]

(* expiry_date values: null, the empty string of an unset date input, a   *)
(* string that is no date, or a date string (calendar day and hour)       *)
NullDate == [k |-> "null", day |-> 0, hour |-> 0]
EmptyDate == [k |-> "empty", day |-> 0, hour |-> 0]
BadDate == [k |-> "bad", day |-> 0, hour |-> 0]
DateStr(d, h) == [k |-> "date", day |-> d, hour |-> h]

ExpiryValues ==
    {NullDate, EmptyDate, BadDate}
        \cup {DateStr(d, h) : d \in 0..MaxDay, h \in ExpiryHours}

MsPerDay == 1000 * 60 * 60 * 24

\* !expiryDate
Falsy(e) == e.k \in {"null", "empty"}

\* new Date(expiryDate), as a time value
DateParse(e) ==
    IF e.k = "date" THEN Num((e.day * 24 + e.hour) * ClockStep)
    ELSE IF e.k = "null" THEN Num(0)
    ELSE NaN

\* Math.ceil(x / d) for d > 0
MathCeil(x, d) == -((-x) \div d)

\* a plausible slip: truncation (parseInt / Math.trunc) instead of Math.ceil
MathTrunc(x, d) == IF x >= 0 THEN x \div d ELSE -((-x) \div d)

getDaysUntilExpiry_trunc(e, today) ==
    IF Falsy(e) THEN Null
    ELSE LET t == DateParse(e) IN
         IF t.k = "nan" THEN NaN
         ELSE Num(MathTrunc(t.v - today, MsPerDay))

getDaysUntilExpiry(e, today) ==
    IF Falsy(e) THEN Null
    ELSE LET t == DateParse(e) IN
         IF t.k = "nan" THEN NaN
         ELSE Num(MathCeil(t.v - today, MsPerDay))

\* days <= n, false for NaN
Leq(days, n) == days.k = "num" /\ days.v <= n

\* a plausible slip: "days < 0" for the expired test
getExpiryStatus_strict(e, today) ==
    LET days == getDaysUntilExpiry(e, today) IN
    IF days.k = "null" THEN "none"
    ELSE IF days.k = "num" /\ days.v < 0 THEN "expired"
    ELSE IF Leq(days, 3) THEN "expiring"
    ELSE "fresh"

\* a plausible slip: "if (!days)" for "if (days === null)"
getExpiryStatus_falsy(e, today) ==
    LET days == getDaysUntilExpiry(e, today) IN
    IF days.k # "num" \/ days.v = 0 THEN "none"
    ELSE IF Leq(days, 0) THEN "expired"
    ELSE IF Leq(days, 3) THEN "expiring"
    ELSE "fresh"

getExpiryStatus(e, today) ==
    LET days == getDaysUntilExpiry(e, today) IN
    IF days.k = "null" THEN "none"
    ELSE IF Leq(days, 0) THEN "expired"
    ELSE IF Leq(days, 3) THEN "expiring"
    ELSE "fresh"

----------------------------------------------------------------------------
(* Strings as sequences of characters, and the two readings of the text of *)
(* a number input: parseInt in the handlers, the browser's own for min     *)

Str1(a) == <<a>>
Drop(s, n) == SubSeq(s, n + 1, Len(s))

IsDigit(c) == c \in {"0", "1", "2", "3", "4", "5", "6", "7", "8", "9"}
DigitVal(c) ==
    CASE c = "0" -> 0 [] c = "1" -> 1 [] c = "2" -> 2 [] c = "3" -> 3
      [] c = "4" -> 4 [] c = "5" -> 5 [] c = "6" -> 6 [] c = "7" -> 7
      [] c = "8" -> 8 [] c = "9" -> 9

RECURSIVE Pow10(_)
Pow10(n) == IF n <= 0 THEN 1 ELSE 10 * Pow10(n - 1)

\* the longest run of digits at the head of s: its value and its length
RECURSIVE DigitRun(_, _, _)
DigitRun(s, val, len) ==
    IF s # <<>> /\ IsDigit(s[1])
    THEN DigitRun(Tail(s), 10 * val + DigitVal(s[1]), len + 1)
    ELSE [val |-> val, len |-> len]

\* String.prototype.trim
RECURSIVE TrimStart(_)
TrimStart(s) == IF s # <<>> /\ s[1] = " " THEN TrimStart(Tail(s)) ELSE s
RECURSIVE TrimEnd(_)
TrimEnd(s) ==
    IF s # <<>> /\ s[Len(s)] = " " THEN TrimEnd(SubSeq(s, 1, Len(s) - 1)) ELSE s
Trim(s) == TrimEnd(TrimStart(s))

\* parseInt(text): leading blanks, a sign, then the leading digits only
parseInt(s) ==
    LET t == TrimStart(s)
        neg == t # <<>> /\ t[1] = "-"
        u == IF t # <<>> /\ t[1] \in {"-", "+"} THEN Tail(t) ELSE t
        r == DigitRun(u, 0, 0)
    IN IF r.len = 0 THEN NaN ELSE Num(IF neg THEN -r.val ELSE r.val)

\* the value of <input type="number">: the text as a floating-point number
\* [-]digits[.digits][e[+-]digits]; ok is FALSE when the text is no number,
\* whole tells whether the value is an integer, v is its integer part
NumberInput(s) ==
    LET neg == s # <<>> /\ s[1] = "-"
        u == IF neg THEN Tail(s) ELSE s
        ip == DigitRun(u, 0, 0)
        a1 == Drop(u, ip.len)
        dot == a1 # <<>> /\ a1[1] = "."
        fp == IF dot THEN DigitRun(Tail(a1), 0, 0) ELSE [val |-> 0, len |-> 0]
        a2 == IF dot THEN Drop(a1, 1 + fp.len) ELSE a1
        hasE == a2 # <<>> /\ a2[1] \in {"e", "E"}
        a3 == IF hasE THEN Tail(a2) ELSE a2
        eneg == hasE /\ a3 # <<>> /\ a3[1] = "-"
        a4 == IF hasE /\ a3 # <<>> /\ a3[1] \in {"-", "+"} THEN Tail(a3) ELSE a3
        ex == IF hasE THEN DigitRun(a4, 0, 0) ELSE [val |-> 0, len |-> 0]
        rest == Drop(a4, ex.len)
        m == ip.val * Pow10(fp.len) + fp.val
        sc == (IF eneg THEN -ex.val ELSE ex.val) - fp.len
        ok == /\ ip.len + fp.len > 0
              /\ dot => fp.len > 0
              /\ hasE => ex.len > 0
              /\ rest = <<>>
        whole == sc >= 0 \/ m % Pow10(-sc) = 0
        mag == IF sc >= 0 THEN m * Pow10(sc) ELSE m \div Pow10(-sc)
    IN [ok |-> ok, whole |-> whole, v |-> IF neg THEN -mag ELSE mag]

\* constraint validation of a required number input with min="1" (the step
\* is 1 from the minimum): the form submits only when this holds
ValidQuantity(s) ==
    LET n == NumberInput(s) IN
    s # <<>> /\ n.ok /\ n.whole /\ n.v >= 1

----------------------------------------------------------------------------
(* The application state: fetches, toasts and the refresh timer *)

MaxItems == 2           \* ids of the entries a response may carry
MaxTicks == 2           \* periods the timed model runs for
MaxRescues == 2         \* clicks on "Rescue Recipes"

Period == 300000
ApiTimeout_long == 10000 * 60
ApiTimeout == 10000
TimeStep == 10 * 1000
MaxElapsed == MaxTicks * Period

\* response.data of a GET: a list of entries, by id
Snapshots == {<<>>} \cup {<<i>> : i \in 1..MaxItems}

Kinds == {"inventory", "recipes", "challenges", "deals", "waste", "rescue"}
MountKinds == Kinds \ {"rescue"}

FailureToast(k) ==
    CASE k = "inventory" -> "Failed to fetch inventory"
      [] k = "recipes" -> "Failed to fetch recipes"
      [] k = "rescue" -> "Failed to fetch expiring recipes"
      [] k = "challenges" -> "Failed to fetch challenges"
      [] k = "deals" -> "Failed to fetch deals"
      [] k = "waste" -> "Failed to fetch waste items"

\* selectedItem === null
NoItem == [id |-> 0]

\* the texts the model types into the name and the quantity field
NameChoices == {<<>>, <<" ">>, <<"M">>}
QuantityChoices == {<<>>, <<"0">>, <<"2">>, <<"0", ".", "5", "e", "1">>}
UnitChoices == {"pieces", "kg"}
CategoryChoices == {"other", "dairy"}
ExpiryChoices == {EmptyDate, DateStr(NowDay + 1, 0)}

\* useState / resetForm: the empty item form (quantity 1 shows as "1")
EmptyForm ==
    [name |-> <<>>, quantity |-> Str1("1"), unit |-> "pieces",
     category |-> "other", expiry_date |-> EmptyDate, barcode |-> <<>>]

\* useState: the empty waste form (item_id '' is 0)
EmptyWasteForm == [item_id |-> 0, quantity |-> Str1("1"), reason |-> "expired"]

\* new Date().toISOString()
toISOString(t) == [k |-> "iso", day |-> t \div MsPerDay, ms |-> t % MsPerDay]

\* the collections initializeSampleData fills, in its order
SampleKinds == <<"recipes", "challenges", "deals">>

\* the lengths of sampleRecipes, sampleChallenges and sampleDeals
SampleCount == [recipes |-> 2, challenges |-> 3, deals |-> 2]

\* initializeSampleData has not been called
SampleOff == [pc |-> "off", kind |-> 0, n |-> 0]

NoSamples == [k \in {"recipes", "challenges", "deals"} |-> 0]

\* the other toast.error messages
OtherErrors ==
    {"Please enter item name", "Failed to add item", "Failed to update item",
     "Failed to delete item", "Failed to log waste item",
     "Failed to lookup barcode"}

Messages == {FailureToast(k) : k \in Kinds} \cup OtherErrors

\* the toast.success messages
SuccessMessages ==
    {"Item added successfully!", "Item updated successfully!",
     "Item deleted successfully!", "Waste item logged successfully!",
     "Product found"}

\* toast.error(msg)
ToastError(msg) == [toasts EXCEPT ![msg] = @ + 1]

\* toast.success(msg)
ToastSuccess(msg) == [toasts EXCEPT ![msg] = @ + 1]

\* the state after construction: the useState initial values
InitApp ==
    /\ phase = "init"
    /\ interval = FALSE
    /\ sinceTick = 0
    /\ elapsed = 0
    /\ ticks = 0
    /\ runs = 0
    /\ notifReqs = <<>>
    /\ notifications = <<>>
    /\ inventory = <<>>
    /\ recipes = <<>>
    /\ challenges = <<>>
    /\ deals = <<>>
    /\ wasteItems = <<>>
    /\ inflight = [k \in Kinds |-> 0]
    /\ rescues = 0
    /\ toasts = [m \in Messages \cup SuccessMessages |-> 0]
    /\ console = {}
    /\ applied = [id |-> 0, data |-> <<>>]
    /\ showAddModal = FALSE
    /\ selectedItem = NoItem
    /\ itemForm = EmptyForm
    /\ showWasteModal = FALSE
    /\ wasteForm = EmptyWasteForm
    /\ writeReqs = <<>>
    /\ wasteReqs = <<>>
    /\ nWrites = 0
    /\ nEdits = 0
    /\ sentSinceOpen = 0
    /\ sample = SampleOff
    /\ invResp = <<>>
    /\ loading = FALSE
    /\ showCameraModal = FALSE
    /\ scannedBarcode = <<>>
    /\ barcodeReqs = <<>>

\* one pending api.get or api.post less, one more
Settle(k) == [inflight EXCEPT ![k] = @ - 1]
Send(k) == [inflight EXCEPT ![k] = @ + 1]

RemoveAt(q, i) == [j \in 1..(Len(q) - 1) |-> IF j < i THEN q[j] ELSE q[j + 1]]

\* fetchNotifications() up to its await: the request is sent
StartNotifications ==
    /\ notifReqs' = Append(notifReqs, [id |-> runs + 1, age |-> 0])
    /\ runs' = runs + 1

\* a plausible slip: the mount effect only arms the timer
Mount_noFetch ==
    /\ phase = "init"
    /\ phase' = "mounted"
    /\ inflight' = [k \in Kinds |->
                      IF k \in MountKinds THEN inflight[k] + 1 ELSE inflight[k]]
    /\ interval' = TRUE
    /\ sinceTick' = 0
    /\ elapsed' = 0
    /\ UNCHANGED <<ticks, runs, notifReqs, listVars, rescues, toasts, console,
                   classifyVars, applied, extraVars>>

\* the mount effect: six fetches, then setInterval(fetchNotifications, 300000)
Mount ==
    /\ phase = "init"
    /\ phase' = "mounted"
    /\ inflight' = [k \in Kinds |->
                      IF k \in MountKinds THEN inflight[k] + 1 ELSE inflight[k]]
    /\ StartNotifications
    /\ interval' = TRUE
    /\ sinceTick' = 0
    /\ elapsed' = 0
    /\ UNCHANGED <<ticks, listVars, rescues, toasts, console, classifyVars, applied, extraVars>>

\* a plausible slip: the effect returns no cleanup
Unmount_noClear ==
    /\ phase = "mounted"
    /\ phase' = "unmounted"
    /\ UNCHANGED <<interval, sinceTick, elapsed, ticks, runs, notifReqs,
                   listVars, fetchVars, classifyVars, applied, extraVars>>

\* the effect's cleanup: clearInterval(interval)
Unmount ==
    /\ phase = "mounted"
    /\ phase' = "unmounted"
    /\ interval' = FALSE
    /\ UNCHANGED <<sinceTick, elapsed, ticks, runs, notifReqs,
                   listVars, fetchVars, classifyVars, applied, extraVars>>

\* TimeStep milliseconds pass: no request outlives the axios timeout and the
\* armed timer does not pass its period without firing
Advance ==
    /\ phase # "init"
    /\ elapsed + TimeStep <= MaxElapsed
    /\ \A i \in DOMAIN notifReqs : notifReqs[i].age + TimeStep <= ApiTimeout
    /\ interval => sinceTick + TimeStep <= Period
    /\ elapsed' = elapsed + TimeStep
    /\ sinceTick' = IF interval THEN sinceTick + TimeStep ELSE sinceTick
    /\ notifReqs' = [i \in DOMAIN notifReqs |->
                       [notifReqs[i] EXCEPT !.age = @ + TimeStep]]
    /\ UNCHANGED <<phase, interval, ticks, runs, listVars, fetchVars,
                   classifyVars, applied, extraVars>>

\* the timer fires: fetchNotifications() is called and the timer re-arms
Tick ==
    /\ interval
    /\ sinceTick = Period
    /\ StartNotifications
    /\ ticks' = ticks + 1
    /\ sinceTick' = 0
    /\ UNCHANGED <<phase, interval, elapsed, listVars, fetchVars, classifyVars, applied, extraVars>>

\* a plausible slip: the response is merged into the list on display
FetchNotificationsOk_merge ==
    \E i \in DOMAIN notifReqs, data \in Snapshots :
        /\ notifications' = IF phase = "mounted" THEN notifications \o data
                                                 ELSE notifications
        /\ applied' = IF phase = "mounted"
                          THEN [id |-> notifReqs[i].id, data |-> data]
                          ELSE applied
        /\ notifReqs' = RemoveAt(notifReqs, i)
        /\ UNCHANGED <<phase, interval, sinceTick, elapsed, ticks, runs,
                       inventory, recipes, challenges, deals, wasteItems,
                       fetchVars, classifyVars, extraVars>>

\* setNotifications(response.data) for the request i; a state setter of a
\* component that has unmounted changes nothing
SetNotifications(i, data) ==
    /\ notifications' = IF phase = "mounted" THEN data ELSE notifications
    /\ applied' = IF phase = "mounted"
                      THEN [id |-> notifReqs[i].id, data |-> data]
                      ELSE applied
    /\ notifReqs' = RemoveAt(notifReqs, i)
    /\ UNCHANGED <<phase, interval, sinceTick, elapsed, ticks, runs,
                   inventory, recipes, challenges, deals, wasteItems,
                   fetchVars, classifyVars, extraVars>>

\* fetchNotifications after its await, whatever the response carries
FetchNotificationsOk ==
    \E i \in DOMAIN notifReqs, data \in Snapshots : SetNotifications(i, data)

\* a plausible slip: the catch block also stops the timer
FetchNotificationsFail_stops ==
    \E i \in DOMAIN notifReqs :
        /\ console' = console \cup {"Failed to fetch notifications"}
        /\ notifReqs' = RemoveAt(notifReqs, i)
        /\ interval' = FALSE
        /\ UNCHANGED <<phase, sinceTick, elapsed, ticks, runs,
                       listVars, inflight, rescues, toasts, classifyVars, applied, extraVars>>

\* fetchNotifications, the catch block: console.error only
FetchNotificationsFail ==
    \E i \in DOMAIN notifReqs :
        /\ console' = console \cup {"Failed to fetch notifications"}
        /\ notifReqs' = RemoveAt(notifReqs, i)
        /\ UNCHANGED <<phase, interval, sinceTick, elapsed, ticks, runs,
                       listVars, inflight, rescues, toasts, classifyVars, applied, extraVars>>

\* setInventory / setRecipes / setChallenges / setDeals / setWasteItems
SetList(k, data) ==
    /\ inventory' = IF k = "inventory" THEN data ELSE inventory
    /\ recipes' = IF k \in {"recipes", "rescue"} THEN data ELSE recipes
    /\ challenges' = IF k = "challenges" THEN data ELSE challenges
    /\ deals' = IF k = "deals" THEN data ELSE deals
    /\ wasteItems' = IF k = "waste" THEN data ELSE wasteItems

\* fetchInventory, fetchRecipes, fetchChallenges, fetchDeals and
\* fetchWasteItems after the await: the setter takes response.data
FetchOk(k) ==
    /\ inflight[k] > 0
    /\ \E data \in Snapshots : SetList(k, data)
    /\ inflight' = Settle(k)
    /\ UNCHANGED <<notifications, rescues, toasts, console, schedVars,
                   classifyVars, applied, extraVars>>

\* the same functions, the catch block: a toast and nothing else
FetchFail(k) ==
    /\ inflight[k] > 0
    /\ toasts' = ToastError(FailureToast(k))
    /\ inflight' = Settle(k)
    /\ UNCHANGED <<listVars, rescues, console, schedVars, classifyVars, applied, extraVars>>

\* the "Rescue Recipes" button: fetchExpiringRecipes() is called
RescueClick ==
    /\ phase = "mounted"
    /\ rescues < MaxRescues
    /\ rescues' = rescues + 1
    /\ inflight' = Send("rescue")
    /\ UNCHANGED <<listVars, toasts, console, schedVars, classifyVars, applied, extraVars>>

\* fetchExpiringRecipes returns response.data; the handler sets it
RescueOk ==
    /\ inflight["rescue"] > 0
    /\ \E data \in Snapshots : SetList("rescue", data)
    /\ inflight' = Settle("rescue")
    /\ UNCHANGED <<notifications, rescues, toasts, console, schedVars,
                   classifyVars, applied, extraVars>>

\* fetchExpiringRecipes catches, toasts and returns []; the handler sets it
RescueFail ==
    /\ inflight["rescue"] > 0
    /\ toasts' = ToastError(FailureToast("rescue"))
    /\ SetList("rescue", <<>>)
    /\ inflight' = Settle("rescue")
    /\ UNCHANGED <<notifications, rescues, console, schedVars, classifyVars, applied, extraVars>>

----------------------------------------------------------------------------
(* The inventory: the add/edit modal, the writes and the reload *)

MaxWrites == 2          \* write requests the model sends
MaxHours == 1           \* hours that pass while the inventory is edited
MaxEdits == 2           \* form fields the model changes
MaxRejects == 1         \* submissions the name check turns down
MaxStored == 1          \* recipes, challenges, deals the store holds at first

DigitChar(d) ==
    CASE d = 0 -> "0" [] d = 1 -> "1" [] d = 2 -> "2" [] d = 3 -> "3"
      [] d = 4 -> "4" [] d = 5 -> "5" [] d = 6 -> "6" [] d = 7 -> "7"
      [] d = 8 -> "8" [] d = 9 -> "9"

\* String(n) of a non-negative integer, as the value attribute shows it
RECURSIVE ToText(_)
ToText(n) ==
    IF n < 10 THEN <<DigitChar(n)>> ELSE Append(ToText(n \div 10), DigitChar(n % 10))

\* item.expiry_date ? item.expiry_date.split('T')[0] : ''
DatePart(e) ==
    IF Falsy(e) THEN EmptyDate
    ELSE IF e.k = "date" THEN DateStr(e.day, 0) ELSE e

\* the store keeps what it was sent, under the id it assigned
WithId(item, id) ==
    [id |-> id, name |-> item.name, quantity |-> item.quantity,
     unit |-> item.unit, category |-> item.category,
     expiry_date |-> item.expiry_date, barcode |-> item.barcode,
     added_date |-> item.added_date, user_id |-> item.user_id]

StoreHas(id) == \E j \in DOMAIN srvItems : srvItems[j].id = id
StoreItem(id) == srvItems[CHOOSE j \in DOMAIN srvItems : srvItems[j].id = id]
StoreCreate(item) == Append(srvItems, WithId(item, srvNextId))
StoreUpdate(id, item) ==
    [j \in DOMAIN srvItems |->
        IF srvItems[j].id = id THEN WithId(item, id) ELSE srvItems[j]]
StoreDelete(id) == SelectSeq(srvItems, LAMBDA it : it.id # id)

\* the options of the unit and the category select
Units == {"pieces", "kg", "liters", "packages", "bottles"}
Categories ==
    {"fruits", "vegetables", "dairy", "meat", "bakery", "pantry", "frozen",
     "other"}

\* resetForm()
resetForm ==
    /\ itemForm' = EmptyForm
    /\ selectedItem' = NoItem
    /\ scannedBarcode' = <<>>

\* no modal overlay covers the page
PageFree ==
    phase = "mounted" /\ ~showAddModal /\ ~showWasteModal /\ ~showCameraModal

\* an "Add Item" button: setShowAddModal(true)
OpenAddModal ==
    /\ PageFree
    /\ showAddModal' = TRUE
    /\ sentSinceOpen' = 0
    /\ UNCHANGED <<selectedItem, itemForm, showWasteModal, wasteForm,
                   storeVars, writeReqs, wasteReqs, nWrites, nEdits, applied, sampleVars, flowVars, scannedBarcode,
                   classifyVars, schedVars, listVars, fetchVars>>

\* the edit button of an inventory card
EditClick ==
    \E i \in DOMAIN inventory :
        LET item == inventory[i] IN
        /\ PageFree
        /\ selectedItem' = item
        /\ itemForm' = [name |-> item.name,
                        quantity |-> ToText(item.quantity.v),
                        unit |-> item.unit,
                        category |-> item.category,
                        expiry_date |-> DatePart(item.expiry_date),
                        barcode |-> item.barcode]
        /\ showAddModal' = TRUE
        /\ sentSinceOpen' = 0
        /\ UNCHANGED <<showWasteModal, wasteForm, storeVars, writeReqs,
                       wasteReqs, nWrites, nEdits, applied, sampleVars, flowVars, scannedBarcode, classifyVars, schedVars,
                       listVars, fetchVars>>

\* the x and Cancel buttons of the modal
CloseAddModal ==
    /\ showAddModal
    /\ showAddModal' = FALSE
    /\ resetForm
    /\ UNCHANGED <<showWasteModal, wasteForm, storeVars, reqVars, nEdits, applied, sampleVars, flowVars,
                   classifyVars, schedVars, listVars, fetchVars>>

\* the onChange handlers of the form fields
ChangeField ==
    /\ showAddModal
    /\ \/ \E n \in NameChoices : itemForm' = [itemForm EXCEPT !.name = n]
       \/ \E q \in QuantityChoices : itemForm' = [itemForm EXCEPT !.quantity = q]
       \/ \E u \in UnitChoices : itemForm' = [itemForm EXCEPT !.unit = u]
       \/ \E c \in CategoryChoices : itemForm' = [itemForm EXCEPT !.category = c]
       \/ \E e \in ExpiryChoices : itemForm' = [itemForm EXCEPT !.expiry_date = e]
    /\ itemForm' # itemForm
    /\ nEdits < MaxEdits
    /\ nEdits' = nEdits + 1
    /\ UNCHANGED <<showAddModal, selectedItem, showWasteModal, wasteForm,
                   storeVars, reqVars, applied, sampleVars, flowVars, scannedBarcode, classifyVars, schedVars,
                   listVars, fetchVars>>

\* the browser submits the form only when its required and min constraints
\* hold: name is required, quantity is a required number with min="1"
FormValid(f) == f.name # <<>> /\ ValidQuantity(f.quantity)

\* newItem of handleAddItem
NewItem(f, now) ==
    [name |-> f.name, quantity |-> parseInt(f.quantity), unit |-> f.unit,
     category |-> f.category, expiry_date |-> f.expiry_date,
     barcode |-> f.barcode, added_date |-> toISOString(now),
     user_id |-> "default"]

\* a plausible slip: the selected item is ignored and a new item is created
SendItem_post(f) ==
    /\ nWrites < MaxWrites
    /\ writeReqs' = Append(writeReqs,
           [method |-> "POST", id |-> 0, item |-> NewItem(f, clock)])
    /\ nWrites' = nWrites + 1
    /\ sentSinceOpen' = sentSinceOpen + 1
    /\ UNCHANGED toasts

\* the write handleAddItem sends: PUT for the selected item, else POST
SendItem(f) ==
    /\ nWrites < MaxWrites
    /\ writeReqs' = Append(writeReqs,
           [method |-> IF selectedItem # NoItem THEN "PUT" ELSE "POST",
            id |-> selectedItem.id,
            item |-> NewItem(f, clock)])
    /\ nWrites' = nWrites + 1
    /\ sentSinceOpen' = sentSinceOpen + 1
    /\ UNCHANGED toasts

\* a plausible slip: the name is tested without trim()
handleAddItem_noTrim ==
    /\ showAddModal
    /\ FormValid(itemForm)
    /\ IF itemForm.name = <<>>
       THEN /\ toasts["Please enter item name"] < MaxRejects
            /\ toasts' = ToastError("Please enter item name")
            /\ UNCHANGED <<writeReqs, nWrites, sentSinceOpen>>
       ELSE SendItem(itemForm)
    /\ UNCHANGED <<uiVars, storeVars, wasteReqs, inflight, rescues, console,
                   nEdits, applied, sampleVars, flowVars, scannedBarcode, classifyVars, schedVars, listVars>>

\* handleAddItem up to its await: the name check, then the request
handleAddItem ==
    /\ showAddModal
    /\ FormValid(itemForm)
    /\ IF Trim(itemForm.name) = <<>>
       THEN /\ toasts["Please enter item name"] < MaxRejects
            /\ toasts' = ToastError("Please enter item name")
            /\ UNCHANGED <<writeReqs, nWrites, sentSinceOpen>>
       ELSE SendItem(itemForm)
    /\ UNCHANGED <<uiVars, storeVars, wasteReqs, inflight, rescues, console,
                   nEdits, applied, sampleVars, flowVars, scannedBarcode, classifyVars, schedVars, listVars>>

\* what every settled write leaves unchanged
WriteFrame ==
    UNCHANGED <<showWasteModal, wasteForm, wasteReqs, nWrites, sentSinceOpen,
                nEdits, rescues, console, applied, sampleVars, flowVars, classifyVars, schedVars, listVars>>

\* addInventoryItem after its await, then the rest of handleAddItem
AddInventoryItemOk ==
    \E i \in DOMAIN writeReqs :
        /\ writeReqs[i].method = "POST"
        /\ srvItems' = StoreCreate(writeReqs[i].item)
        /\ srvNextId' = srvNextId + 1
        /\ toasts' = ToastSuccess("Item added successfully!")
        /\ inflight' = Send("inventory")
        /\ showAddModal' = FALSE
        /\ resetForm
        /\ writeReqs' = RemoveAt(writeReqs, i)
        /\ WriteFrame

\* addInventoryItem, the catch block, then the rest of handleAddItem
AddInventoryItemFail ==
    \E i \in DOMAIN writeReqs :
        /\ writeReqs[i].method = "POST"
        /\ toasts' = ToastError("Failed to add item")
        /\ showAddModal' = FALSE
        /\ resetForm
        /\ writeReqs' = RemoveAt(writeReqs, i)
        /\ UNCHANGED <<storeVars, inflight>>
        /\ WriteFrame

\* updateInventoryItem after its await, then the rest of handleAddItem
UpdateInventoryItemOk ==
    \E i \in DOMAIN writeReqs :
        /\ writeReqs[i].method = "PUT"
        /\ StoreHas(writeReqs[i].id)
        /\ srvItems' = StoreUpdate(writeReqs[i].id, writeReqs[i].item)
        /\ toasts' = ToastSuccess("Item updated successfully!")
        /\ inflight' = Send("inventory")
        /\ showAddModal' = FALSE
        /\ resetForm
        /\ writeReqs' = RemoveAt(writeReqs, i)
        /\ UNCHANGED srvNextId
        /\ WriteFrame

\* updateInventoryItem, the catch block, then the rest of handleAddItem
UpdateInventoryItemFail ==
    \E i \in DOMAIN writeReqs :
        /\ writeReqs[i].method = "PUT"
        /\ toasts' = ToastError("Failed to update item")
        /\ showAddModal' = FALSE
        /\ resetForm
        /\ writeReqs' = RemoveAt(writeReqs, i)
        /\ UNCHANGED <<storeVars, inflight>>
        /\ WriteFrame

\* the delete button of an inventory card: deleteInventoryItem(item.id)
DeleteClick ==
    \E i \in DOMAIN inventory :
        /\ PageFree
        /\ nWrites < MaxWrites
        /\ writeReqs' = Append(writeReqs,
               [method |-> "DELETE", id |-> inventory[i].id, item |-> NoItem])
        /\ nWrites' = nWrites + 1
        /\ UNCHANGED <<uiVars, storeVars, wasteReqs, sentSinceOpen, nEdits, applied, sampleVars, flowVars, scannedBarcode,
                       classifyVars, schedVars, listVars, fetchVars>>

\* deleteInventoryItem after its await
DeleteInventoryItemOk ==
    \E i \in DOMAIN writeReqs :
        /\ writeReqs[i].method = "DELETE"
        /\ StoreHas(writeReqs[i].id)
        /\ srvItems' = StoreDelete(writeReqs[i].id)
        /\ toasts' = ToastSuccess("Item deleted successfully!")
        /\ inflight' = Send("inventory")
        /\ writeReqs' = RemoveAt(writeReqs, i)
        /\ UNCHANGED <<srvNextId, showAddModal, selectedItem, itemForm,
                       scannedBarcode>>
        /\ WriteFrame

\* deleteInventoryItem, the catch block
DeleteInventoryItemFail ==
    \E i \in DOMAIN writeReqs :
        /\ writeReqs[i].method = "DELETE"
        /\ toasts' = ToastError("Failed to delete item")
        /\ writeReqs' = RemoveAt(writeReqs, i)
        /\ UNCHANGED <<storeVars, inflight, showAddModal, selectedItem, itemForm,
                       scannedBarcode>>
        /\ WriteFrame

\* fetchInventory after its await: the response is the store's listing
FetchInventoryOk ==
    /\ inflight["inventory"] > 0
    /\ inventory' = srvItems
    /\ inflight' = Settle("inventory")
    /\ UNCHANGED <<notifications, recipes, challenges, deals, wasteItems,
                   rescues, toasts, console, applied, schedVars, classifyVars,
                   extraVars>>

\* an hour passes
HourPasses ==
    /\ clock + ClockStep <= NowDay * MsPerDay + MaxHours * ClockStep
    /\ clock' = clock + ClockStep
    /\ UNCHANGED <<expiry, call, badge, schedVars, listVars, fetchVars,
                   applied, extraVars>>

InitIdle ==
    /\ clock = NowDay * MsPerDay
    /\ expiry = NullDate
    /\ call = [fn |-> "none", expiry |-> NullDate, now |-> 0,
               days |-> Null, status |-> "none"]
    /\ badge = [shown |-> FALSE, status |-> "none", days |-> Null,
                now1 |-> 0, now2 |-> 0]
    /\ srvItems = <<>>
    /\ srvNextId = 1
    /\ srvCounts = NoSamples
    /\ srvAtMount = NoSamples
    /\ srvRecipes = <<>>
    /\ InitApp

\* the refresh scheduler in real time
NextSched ==
    \/ Mount
    \/ Advance
    \/ Tick
    \/ FetchNotificationsOk
    \/ FetchNotificationsFail
    \/ Unmount

SpecSched == InitIdle /\ [][NextSched]_vars

\* the fetches of the mount effect and of the rescue button
NextFetch ==
    \/ Mount
    \/ \E k \in MountKinds : FetchOk(k)
    \/ \E k \in MountKinds : FetchFail(k)
    \/ FetchNotificationsOk
    \/ FetchNotificationsFail
    \/ RescueClick
    \/ RescueOk
    \/ RescueFail

SpecFetch == InitIdle /\ [][NextFetch]_vars

----------------------------------------------------------------------------
(* The inventory reload, request and response apart *)

\* the store answers a GET /api/inventory with its items as they are now
ServeInventory ==
    /\ inflight["inventory"] > 0
    /\ invResp' = Append(invResp, srvItems)
    /\ inflight' = Settle("inventory")
    /\ UNCHANGED <<listVars, rescues, toasts, console, applied, schedVars,
                   classifyVars, uiVars, storeVars, reqVars, nEdits,
                   sampleVars, loading, showCameraModal, barcodeReqs,
                   scannedBarcode>>

\* fetchInventory after its await: setInventory(response.data), for any of
\* the responses on their way
DeliverInventory ==
    \E i \in DOMAIN invResp :
        /\ inventory' = IF phase = "mounted" THEN invResp[i] ELSE inventory
        /\ invResp' = RemoveAt(invResp, i)
        /\ UNCHANGED <<notifications, recipes, challenges, deals, wasteItems,
                       fetchVars, applied, schedVars, classifyVars, uiVars,
                       storeVars, reqVars, nEdits, sampleVars, loading,
                       showCameraModal, barcodeReqs, scannedBarcode>>

\* the inventory screen with every reload in two steps
NextReload ==
    \/ Mount
    \/ OpenAddModal
    \/ EditClick
    \/ CloseAddModal
    \/ ChangeField
    \/ handleAddItem
    \/ AddInventoryItemOk
    \/ AddInventoryItemFail
    \/ UpdateInventoryItemOk
    \/ UpdateInventoryItemFail
    \/ DeleteClick
    \/ DeleteInventoryItemOk
    \/ DeleteInventoryItemFail
    \/ ServeInventory
    \/ DeliverInventory
    \/ \E k \in MountKinds : FetchFail(k)
    \/ FetchNotificationsFail

SpecReload == InitIdle /\ [][NextReload]_vars

----------------------------------------------------------------------------
(* The barcode scan *)

MaxScans == 2           \* lookups that end with a notice

\* mockBarcodes of simulateBarcodeScan
MockBarcodes ==
    {<<"1", "2", "3", "4", "5", "6", "7", "8", "9">>,
     <<"9", "8", "7", "6", "5", "4", "3", "2", "1">>,
     <<"4", "5", "6", "7", "8", "9", "1", "2", "3">>}

\* the product metadata a lookup may return; category "" is a product
\* that carries none
Products ==
    {[name |-> <<"E">>, category |-> "dairy"],
     [name |-> <<"E">>, category |-> ""]}

\* the "Scan Barcode" buttons
OpenCameraModal ==
    /\ PageFree
    /\ showCameraModal' = TRUE
    /\ UNCHANGED <<invResp, loading, barcodeReqs, scannedBarcode, uiVars,
                   storeVars, reqVars, nEdits, sampleVars, applied,
                   classifyVars, schedVars, listVars, fetchVars>>

\* the x of the camera modal
CloseCameraModal ==
    /\ showCameraModal
    /\ showCameraModal' = FALSE
    /\ UNCHANGED <<invResp, loading, barcodeReqs, scannedBarcode, uiVars,
                   storeVars, reqVars, nEdits, sampleVars, applied,
                   classifyVars, schedVars, listVars, fetchVars>>

\* lookups sent and not answered, and the notices of those answered
ScansNoticed ==
    Len(barcodeReqs) + toasts["Product found"]
        + toasts["Failed to lookup barcode"]

\* simulateBarcodeScan, then handleBarcodeScanned up to its await: one of
\* the mock barcodes, setLoading(true), the lookup is sent
simulateBarcodeScan ==
    /\ phase = "mounted"
    /\ showCameraModal
    /\ ScansNoticed < MaxScans
    /\ \E code \in MockBarcodes :
           /\ scannedBarcode' = code
           /\ barcodeReqs' = Append(barcodeReqs, code)
    /\ loading' = TRUE
    /\ UNCHANGED <<invResp, showCameraModal, uiVars, storeVars, reqVars,
                   nEdits, sampleVars, applied, classifyVars, schedVars,
                   listVars, fetchVars>>

\* the end of handleBarcodeScanned: setLoading(false),
\* setShowCameraModal(false), setShowAddModal(true)
ScanTail(i) ==
    /\ loading' = FALSE
    /\ showCameraModal' = FALSE
    /\ showAddModal' = TRUE
    /\ sentSinceOpen' = IF showAddModal THEN sentSinceOpen ELSE 0
    /\ barcodeReqs' = RemoveAt(barcodeReqs, i)
    /\ UNCHANGED <<invResp, scannedBarcode, selectedItem, showWasteModal,
                   wasteForm, storeVars, writeReqs, wasteReqs, nWrites, nEdits,
                   sampleVars, applied, classifyVars, schedVars, listVars,
                   inflight, rescues, console>>

\* lookupBarcode returns a product: the form takes its name, its category
\* (or 'other') and the barcode
LookupFound ==
    \E i \in DOMAIN barcodeReqs, productInfo \in Products :
        /\ itemForm' = [itemForm EXCEPT
               !.name = productInfo.name,
               !.category = IF productInfo.category = "" THEN "other"
                            ELSE productInfo.category,
               !.barcode = barcodeReqs[i]]
        /\ toasts' = ToastSuccess("Product found")
        /\ ScanTail(i)

\* lookupBarcode returns an empty answer: no product
LookupNotFound ==
    \E i \in DOMAIN barcodeReqs :
        /\ UNCHANGED <<itemForm, toasts>>
        /\ ScanTail(i)

\* a plausible slip: the failure leaves handleBarcodeScanned, nothing after
\* the await runs
LookupFail_throws ==
    \E i \in DOMAIN barcodeReqs :
        /\ toasts' = ToastError("Failed to lookup barcode")
        /\ barcodeReqs' = RemoveAt(barcodeReqs, i)
        /\ UNCHANGED <<itemForm, loading, showCameraModal, showAddModal,
                       sentSinceOpen, invResp, scannedBarcode, selectedItem,
                       showWasteModal, wasteForm, storeVars, writeReqs,
                       wasteReqs, nWrites, nEdits, sampleVars, applied,
                       classifyVars, schedVars, listVars, inflight, rescues,
                       console>>

\* lookupBarcode, the catch block: a toast, null is returned
LookupFail ==
    \E i \in DOMAIN barcodeReqs :
        /\ toasts' = ToastError("Failed to lookup barcode")
        /\ UNCHANGED itemForm
        /\ ScanTail(i)

\* a lookup is answered, one way or another
LookupSettles == LookupFound \/ LookupNotFound \/ LookupFail

\* the camera modal, the scans and the item modal they open
NextScan ==
    \/ Mount
    \/ OpenCameraModal
    \/ CloseCameraModal
    \/ simulateBarcodeScan
    \/ LookupFound
    \/ LookupNotFound
    \/ LookupFail
    \/ OpenAddModal
    \/ ChangeField
    \/ CloseAddModal

\* every request is answered or times out
SpecScan == InitIdle /\ [][NextScan]_vars /\ WF_vars(LookupSettles)

----------------------------------------------------------------------------
(* The waste modal *)

\* the options of the reason select
WasteReasons == {"expired", "spoiled", "damaged", "other"}

\* the "Log Waste" button
OpenWasteModal ==
    /\ PageFree
    /\ showWasteModal' = TRUE
    /\ UNCHANGED <<showAddModal, selectedItem, itemForm, wasteForm, storeVars,
                   reqVars, nEdits, applied, sampleVars, flowVars, scannedBarcode, classifyVars,
                   schedVars, listVars, fetchVars>>

\* the x and the Cancel button of the waste modal: the form is kept
CloseWasteModal ==
    /\ showWasteModal
    /\ showWasteModal' = FALSE
    /\ UNCHANGED <<showAddModal, selectedItem, itemForm, wasteForm, storeVars,
                   reqVars, nEdits, applied, sampleVars, flowVars, scannedBarcode, classifyVars,
                   schedVars, listVars, fetchVars>>

\* the ids the item select offers: '' and the displayed items
ItemOptions == {0} \cup {inventory[j].id : j \in DOMAIN inventory}

\* an onChange of the waste form
ChangeWasteField ==
    /\ showWasteModal
    /\ nEdits < MaxEdits
    /\ \/ \E id \in ItemOptions : wasteForm' = [wasteForm EXCEPT !.item_id = id]
       \/ \E q \in QuantityChoices : wasteForm' = [wasteForm EXCEPT !.quantity = q]
       \/ \E x \in {"expired", "spoiled"} :
              wasteForm' = [wasteForm EXCEPT !.reason = x]
    /\ wasteForm' # wasteForm
    /\ nEdits' = nEdits + 1
    /\ UNCHANGED <<showAddModal, selectedItem, itemForm, showWasteModal,
                   storeVars, reqVars, applied, sampleVars, flowVars, scannedBarcode, classifyVars,
                   schedVars, listVars, fetchVars>>

\* what the browser lets through to onSubmit: an item is chosen and the
\* quantity input holds a whole number of at least 1
WasteFormValid(f) == f.item_id # 0 /\ ValidQuantity(f.quantity)

\* inventory.find(item => item.id === wasteForm.item_id)?.name || 'Unknown'
ItemName(id) ==
    IF \E j \in DOMAIN inventory : inventory[j].id = id
        THEN inventory[CHOOSE j \in DOMAIN inventory : inventory[j].id = id].name
        ELSE <<"U", "n", "k", "n", "o", "w", "n">>

\* wasteItem of handleAddWaste
NewWasteItem(f, now) ==
    [item_id |-> f.item_id, quantity |-> parseInt(f.quantity),
     reason |-> f.reason, item_name |-> ItemName(f.item_id),
     date_discarded |-> toISOString(now), user_id |-> "default"]

\* handleAddWaste up to the await in addWasteItem: the record is posted
handleAddWaste ==
    /\ showWasteModal
    /\ WasteFormValid(wasteForm)
    /\ nWrites < MaxWrites
    /\ wasteReqs' = Append(wasteReqs, NewWasteItem(wasteForm, clock))
    /\ nWrites' = nWrites + 1
    /\ UNCHANGED <<uiVars, storeVars, writeReqs, sentSinceOpen, nEdits, applied,
                   sampleVars, flowVars, scannedBarcode, classifyVars, schedVars, listVars, fetchVars>>

\* addWasteItem after its await, then the rest of handleAddWaste
AddWasteItemOk ==
    \E i \in DOMAIN wasteReqs :
        /\ toasts' = ToastSuccess("Waste item logged successfully!")
        /\ inflight' = Send("waste")
        /\ showWasteModal' = FALSE
        /\ wasteForm' = EmptyWasteForm
        /\ wasteReqs' = RemoveAt(wasteReqs, i)
        /\ UNCHANGED <<showAddModal, selectedItem, itemForm, storeVars,
                       writeReqs, nWrites, sentSinceOpen, nEdits, applied,
                       sampleVars, flowVars, scannedBarcode, classifyVars, schedVars, listVars, rescues,
                       console>>

\* addWasteItem, the catch block, then the rest of handleAddWaste
AddWasteItemFail ==
    \E i \in DOMAIN wasteReqs :
        /\ toasts' = ToastError("Failed to log waste item")
        /\ showWasteModal' = FALSE
        /\ wasteForm' = EmptyWasteForm
        /\ wasteReqs' = RemoveAt(wasteReqs, i)
        /\ UNCHANGED <<showAddModal, selectedItem, itemForm, storeVars,
                       writeReqs, nWrites, sentSinceOpen, nEdits, applied,
                       sampleVars, flowVars, scannedBarcode, classifyVars, schedVars, listVars, inflight,
                       rescues, console>>

\* an item as the store holds it
Stored(id, name, q, e) ==
    [id |-> id, name |-> name, quantity |-> [k |-> "num", v |-> q],
     unit |-> "pieces", category |-> "other", expiry_date |-> e,
     barcode |-> <<>>, added_date |-> toISOString(NowDay * MsPerDay),
     user_id |-> "default"]

\* the store holds one item, of quantity 1 or 2
InitWaste ==
    /\ clock = NowDay * MsPerDay
    /\ expiry = NullDate
    /\ call = [fn |-> "none", expiry |-> NullDate, now |-> 0,
               days |-> Null, status |-> "none"]
    /\ badge = [shown |-> FALSE, status |-> "none", days |-> Null,
                now1 |-> 0, now2 |-> 0]
    /\ \E q \in 1..2 : srvItems = <<Stored(1, <<"M">>, q, EmptyDate)>>
    /\ srvNextId = 2
    /\ srvCounts = NoSamples
    /\ srvAtMount = NoSamples
    /\ srvRecipes = <<>>
    /\ InitApp

NextWaste ==
    \/ Mount
    \/ FetchInventoryOk
    \/ FetchFail("inventory")
    \/ OpenWasteModal
    \/ CloseWasteModal
    \/ ChangeWasteField
    \/ handleAddWaste
    \/ AddWasteItemOk
    \/ AddWasteItemFail
    \/ FetchOk("waste")
    \/ FetchFail("waste")

SpecWaste == InitWaste /\ [][NextWaste]_vars

----------------------------------------------------------------------------
(* The notification generator behind GET /api/notifications/expiring *)

MaxShelf == 2           \* items the store holds at first

\* the urgency of an alert: expired is high, expiring is high up to one day
Urgency(status, days) ==
    IF status = "expired" THEN "high"
    ELSE IF days.v <= 1 THEN "high" ELSE "medium"

\* the alert of an item at risk; the message is fixed by name, status, days
AlertOf(item, now) ==
    LET days == getDaysUntilExpiry(item.expiry_date, now)
        status == getExpiryStatus(item.expiry_date, now)
    IN  [id |-> 0, itemId |-> item.id,
         message |-> [name |-> item.name, status |-> status, days |-> days.v],
         urgency |-> Urgency(status, days)]

\* ascending by days, ties by item id
AlertBefore(a, b) ==
    \/ a.message.days < b.message.days
    \/ a.message.days = b.message.days /\ a.itemId < b.itemId

RECURSIVE InsertAlert(_, _)
InsertAlert(a, q) ==
    IF q = <<>> THEN <<a>>
    ELSE IF AlertBefore(a, q[1]) THEN <<a>> \o q
    ELSE <<q[1]>> \o InsertAlert(a, Tail(q))

RECURSIVE SortAlerts(_)
SortAlerts(q) ==
    IF q = <<>> THEN <<>> ELSE InsertAlert(Head(q), SortAlerts(Tail(q)))

\* generate(items, now): one alert per expired or expiring item, most urgent
\* first, with ids given in that order
Generate(items, now) ==
    LET atRisk(item) ==
            getExpiryStatus(item.expiry_date, now) \in {"expired", "expiring"}
        kept == SelectSeq(items, atRisk)
        sorted == SortAlerts([i \in DOMAIN kept |-> AlertOf(kept[i], now)])
    IN  [i \in DOMAIN sorted |-> [sorted[i] EXCEPT !.id = i]]

\* fetchNotifications after its await, the response computed by the store
FetchAlertsOk ==
    \E i \in DOMAIN notifReqs : SetNotifications(i, Generate(srvItems, clock))

\* the expiry dates of the items on the shelf
ShelfExpiries ==
    {EmptyDate, DateStr(NowDay - 1, 0), DateStr(NowDay, 0),
     DateStr(NowDay + 1, 0), DateStr(NowDay + 2, 0), DateStr(NowDay + 4, 0)}

\* the stores of up to MaxShelf items, with ids 1, 2, ..
Shelves ==
    UNION {{[j \in 1..n |-> Stored(j, <<"M">>, 1, f[j])] :
               f \in [1..n -> ShelfExpiries]} : n \in 0..MaxShelf}

InitAlert ==
    /\ clock = NowDay * MsPerDay
    /\ expiry = NullDate
    /\ call = [fn |-> "none", expiry |-> NullDate, now |-> 0,
               days |-> Null, status |-> "none"]
    /\ badge = [shown |-> FALSE, status |-> "none", days |-> Null,
                now1 |-> 0, now2 |-> 0]
    /\ srvItems \in Shelves
    /\ srvNextId = Len(srvItems) + 1
    /\ srvCounts = NoSamples
    /\ srvAtMount = NoSamples
    /\ srvRecipes = <<>>
    /\ InitApp

\* the alerts next to the inventory: loading, deleting, time passing
NextAlert ==
    \/ Mount
    \/ FetchInventoryOk
    \/ \E k \in MountKinds : FetchFail(k)
    \/ FetchAlertsOk
    \/ FetchNotificationsFail
    \/ DeleteClick
    \/ DeleteInventoryItemOk
    \/ DeleteInventoryItemFail
    \/ HourPasses

SpecAlert == InitAlert /\ [][NextAlert]_vars

\* the generator alone: the alerts are fetched as the hours pass
NextGenerate ==
    \/ Mount
    \/ FetchAlertsOk
    \/ FetchNotificationsFail
    \/ HourPasses

SpecGenerate == InitAlert /\ [][NextGenerate]_vars

----------------------------------------------------------------------------
(* The recipe matcher behind GET /api/recipes/expiring *)

MaxCatalog == 2         \* recipes the store holds

UpperCase ==
    <<"A", "B", "C", "D", "E", "F", "G", "H", "I", "J", "K", "L", "M",
      "N", "O", "P", "Q", "R", "S", "T", "U", "V", "W", "X", "Y", "Z">>
LowerCase ==
    <<"a", "b", "c", "d", "e", "f", "g", "h", "i", "j", "k", "l", "m",
      "n", "o", "p", "q", "r", "s", "t", "u", "v", "w", "x", "y", "z">>

ToLowerChar(c) ==
    IF \E i \in DOMAIN UpperCase : UpperCase[i] = c
        THEN LowerCase[CHOOSE i \in DOMAIN UpperCase : UpperCase[i] = c]
        ELSE c
ToLowerCase(s) == [i \in DOMAIN s |-> ToLowerChar(s[i])]

\* the matching key of a name: trimmed, case folded
Normalize(s) == ToLowerCase(Trim(s))

\* the items of the snapshot that are expired or expiring
AtRisk(items, now) ==
    SelectSeq(items, LAMBDA item :
        getExpiryStatus(item.expiry_date, now) \in {"expired", "expiring"})

Range(q) == {q[i] : i \in DOMAIN q}

Min(S) == CHOOSE x \in S : \A y \in S : x <= y

\* a recipe with its expiringIngredients and the keys it is ranked by
Annotate(recipe, risky, now) ==
    LET names == {Normalize(item.name) : item \in Range(risky)}
        hit == SelectSeq(recipe.ingredients,
                         LAMBDA ing : Normalize(ing) \in names)
        keys == {Normalize(ing) : ing \in Range(hit)}
        sources == {item \in Range(risky) : Normalize(item.name) \in keys}
    IN  [recipe |-> [id |-> recipe.id, ingredients |-> recipe.ingredients,
                     expiringIngredients |-> hit],
         size |-> Cardinality(keys),
         minDays |-> IF sources = {} THEN 0
                     ELSE Min({getDaysUntilExpiry(item.expiry_date, now).v :
                                  item \in sources})]

\* more shared ingredients first, then the closer expiry, then the id
RankedBefore(a, b) ==
    \/ a.size > b.size
    \/ a.size = b.size /\ a.minDays < b.minDays
    \/ a.size = b.size /\ a.minDays = b.minDays /\ a.recipe.id < b.recipe.id

RECURSIVE InsertRanked(_, _)
InsertRanked(a, q) ==
    IF q = <<>> THEN <<a>>
    ELSE IF RankedBefore(a, q[1]) THEN <<a>> \o q
    ELSE <<q[1]>> \o InsertRanked(a, Tail(q))

RECURSIVE SortRanked(_)
SortRanked(q) ==
    IF q = <<>> THEN <<>> ELSE InsertRanked(Head(q), SortRanked(Tail(q)))

\* match(items, recipes, now)
Match(items, catalog, now) ==
    LET risky == AtRisk(items, now)
        all == [i \in DOMAIN catalog |-> Annotate(catalog[i], risky, now)]
        kept == SelectSeq(all, LAMBDA a : a.size > 0)
        ranked == SortRanked(kept)
    IN  IF risky = <<>> THEN <<>>
        ELSE [i \in DOMAIN ranked |-> ranked[i].recipe]

\* fetchExpiringRecipes returns the store's answer; the handler sets it
RescueMatchOk ==
    /\ inflight["rescue"] > 0
    /\ SetList("rescue", Match(srvItems, srvRecipes, clock))
    /\ inflight' = Settle("rescue")
    /\ UNCHANGED <<notifications, rescues, toasts, console, schedVars,
                   classifyVars, applied, extraVars>>

\* the names and dates of the items on the shelf, the ingredient lists
PantryNames == {<<"M">>, <<" ", "e">>}
PantryExpiries == {DateStr(NowDay, 0), DateStr(NowDay + 3, 2)}
IngredientLists ==
    {<<<<"m">>>>, <<<<"E", " ">>, <<"m">>>>, <<<<"x">>>>}

Pantries ==
    UNION {{[j \in 1..n |-> Stored(j, f[j][1], 1, f[j][2])] :
               f \in [1..n -> PantryNames \X PantryExpiries]} :
           n \in 0..MaxShelf}

Catalogs ==
    UNION {{[j \in 1..n |-> [id |-> j, ingredients |-> f[j]]] :
               f \in [1..n -> IngredientLists]} : n \in 0..MaxCatalog}

InitRescue ==
    /\ clock = NowDay * MsPerDay
    /\ expiry = NullDate
    /\ call = [fn |-> "none", expiry |-> NullDate, now |-> 0,
               days |-> Null, status |-> "none"]
    /\ badge = [shown |-> FALSE, status |-> "none", days |-> Null,
                now1 |-> 0, now2 |-> 0]
    /\ srvItems \in Pantries
    /\ srvNextId = Len(srvItems) + 1
    /\ srvCounts = NoSamples
    /\ srvAtMount = NoSamples
    /\ srvRecipes \in Catalogs
    /\ InitApp

\* the rescue button against the store's matcher
NextRescue ==
    \/ Mount
    \/ RescueClick
    \/ RescueMatchOk
    \/ RescueFail

SpecRescue == InitRescue /\ [][NextRescue]_vars

----------------------------------------------------------------------------
(* The sample data effect *)

\* recipes.length, challenges.length and deals.length as initializeSampleData
\* reads them: the values its closure captured at the first render
ClosureLength(k) == 0

\* the position after the sample (kind, n): the next sample of a collection
\* whose captured length is 0, or the timer once all three are done
RECURSIVE SampleFrom(_, _)
SampleFrom(kind, n) ==
    IF kind > Len(SampleKinds) THEN [pc |-> "timer", kind |-> 0, n |-> 0]
    ELSE IF ClosureLength(SampleKinds[kind]) = 0
            /\ n <= SampleCount[SampleKinds[kind]]
         THEN [pc |-> "post", kind |-> kind, n |-> n]
         ELSE SampleFrom(kind + 1, 1)

\* the second mount effect calls initializeSampleData(): it runs up to its
\* first await
InitializeSampleData ==
    /\ phase = "mounted"
    /\ sample.pc = "off"
    /\ sample' = SampleFrom(1, 1)
    /\ srvAtMount' = srvCounts
    /\ UNCHANGED <<srvCounts, srvRecipes, uiVars, storeVars, reqVars, nEdits, flowVars,
                   scannedBarcode, applied,
                   classifyVars, schedVars, listVars, fetchVars>>

\* the awaited api.post of a sample succeeds: the store has one more
SamplePostOk ==
    /\ sample.pc = "post"
    /\ srvCounts' = [srvCounts EXCEPT ![SampleKinds[sample.kind]] = @ + 1]
    /\ sample' = SampleFrom(sample.kind, sample.n + 1)
    /\ UNCHANGED <<srvAtMount, srvRecipes, uiVars, storeVars, reqVars, nEdits, flowVars,
                   scannedBarcode, applied,
                   classifyVars, schedVars, listVars, fetchVars>>

SampleError(k) ==
    CASE k = "recipes" -> "Failed to add sample recipe:"
      [] k = "challenges" -> "Failed to add sample challenge:"
      [] k = "deals" -> "Failed to add sample deal:"

\* the awaited api.post fails: console.error, and the loop goes on
SamplePostFail ==
    /\ sample.pc = "post"
    /\ console' = console \cup {SampleError(SampleKinds[sample.kind])}
    /\ sample' = SampleFrom(sample.kind, sample.n + 1)
    /\ UNCHANGED <<srvCounts, srvAtMount, srvRecipes, uiVars, storeVars, reqVars, nEdits, flowVars,
                   scannedBarcode,
                   applied, classifyVars, schedVars, listVars, inflight,
                   rescues, toasts>>

\* the setTimeout callback: the three collections are fetched again
SampleTimer ==
    /\ sample.pc = "timer"
    /\ sample' = [sample EXCEPT !.pc = "done"]
    /\ inflight' = [k \in Kinds |->
                       IF k \in {"recipes", "challenges", "deals"}
                           THEN inflight[k] + 1 ELSE inflight[k]]
    /\ UNCHANGED <<srvCounts, srvAtMount, srvRecipes, uiVars, storeVars, reqVars, nEdits, flowVars,
                   scannedBarcode,
                   applied, classifyVars, schedVars, listVars, rescues, toasts,
                   console>>

\* the store may already hold recipes, challenges and deals
InitSample ==
    /\ clock = NowDay * MsPerDay
    /\ expiry = NullDate
    /\ call = [fn |-> "none", expiry |-> NullDate, now |-> 0,
               days |-> Null, status |-> "none"]
    /\ badge = [shown |-> FALSE, status |-> "none", days |-> Null,
                now1 |-> 0, now2 |-> 0]
    /\ srvItems = <<>>
    /\ srvNextId = 1
    /\ srvCounts \in [{"recipes", "challenges", "deals"} -> 0..MaxStored]
    /\ srvAtMount = NoSamples
    /\ srvRecipes = <<>>
    /\ InitApp

NextSample ==
    \/ Mount
    \/ InitializeSampleData
    \/ SamplePostOk
    \/ SamplePostFail
    \/ SampleTimer
    \/ \E k \in {"recipes", "challenges", "deals"} : FetchOk(k)
    \/ \E k \in {"recipes", "challenges", "deals"} : FetchFail(k)

SpecSample == InitSample /\ [][NextSample]_vars

\* the item modal alone: filling, submitting, the answers
NextForm ==
    \/ Mount
    \/ OpenAddModal
    \/ EditClick
    \/ CloseAddModal
    \/ ChangeField
    \/ handleAddItem
    \/ AddInventoryItemOk
    \/ AddInventoryItemFail
    \/ UpdateInventoryItemOk
    \/ UpdateInventoryItemFail
    \/ FetchInventoryOk

SpecForm == InitIdle /\ [][NextForm]_vars

\* the inventory screen: the item modal, the writes and the reload
NextItem ==
    \/ Mount
    \/ OpenAddModal
    \/ EditClick
    \/ CloseAddModal
    \/ ChangeField
    \/ handleAddItem
    \/ AddInventoryItemOk
    \/ AddInventoryItemFail
    \/ UpdateInventoryItemOk
    \/ UpdateInventoryItemFail
    \/ DeleteClick
    \/ DeleteInventoryItemOk
    \/ DeleteInventoryItemFail
    \/ FetchInventoryOk
    \/ FetchFail("inventory")
    \/ HourPasses

SpecItem == InitIdle /\ [][NextItem]_vars

----------------------------------------------------------------------------
(* The classifier specification *)

NoCall == [fn |-> "none", expiry |-> NullDate, now |-> 0,
           days |-> Null, status |-> "none"]
NoBadge == [shown |-> FALSE, status |-> "none", days |-> Null,
            now1 |-> 0, now2 |-> 0]

InitClassify ==
    /\ clock \in {NowDay * MsPerDay + h * ClockStep - e :
                    h \in 0..MaxNowHour, e \in {0, 1}}
    /\ expiry \in ExpiryValues
    /\ call = NoCall
    /\ badge = NoBadge
    /\ srvItems = <<>>
    /\ srvNextId = 1
    /\ srvCounts = NoSamples
    /\ srvAtMount = NoSamples
    /\ srvRecipes = <<>>
    /\ InitApp

MaxClock == NowDay * MsPerDay + (MaxNowHour + MaxClockSteps) * ClockStep

\* the clock values the model observes: each hour mark and the millisecond
\* before it (expiry dates fall on hour marks)
NextInstant(t) ==
    IF t % ClockStep = ClockStep - 1 THEN t + 1 ELSE t + ClockStep - 1

\* real time passes
ClockAdvance ==
    /\ NextInstant(clock) <= MaxClock
    /\ clock' = NextInstant(clock)
    /\ UNCHANGED <<expiry, call, badge>>
    /\ UNCHANGED <<schedVars, listVars, fetchVars, applied, extraVars>>

\* another item is looked at
SelectExpiry ==
    /\ \E e \in ExpiryValues : expiry' = e
    /\ call' = NoCall
    /\ badge' = NoBadge
    /\ UNCHANGED clock
    /\ UNCHANGED <<schedVars, listVars, fetchVars, applied, extraVars>>

\* getDaysUntilExpiry(item.expiry_date), as shareItem evaluates it
CallGetDaysUntilExpiry ==
    /\ call' = [fn |-> "days", expiry |-> expiry, now |-> clock,
                days |-> getDaysUntilExpiry(expiry, clock),
                status |-> "none"]
    /\ badge' = NoBadge
    /\ UNCHANGED <<clock, expiry>>
    /\ UNCHANGED <<schedVars, listVars, fetchVars, applied, extraVars>>

\* getExpiryStatus(expiryDate) evaluated at the current clock
CallGetExpiryStatus ==
    /\ call' = [fn |-> "status", expiry |-> expiry, now |-> clock,
                days |-> getDaysUntilExpiry(expiry, clock),
                status |-> getExpiryStatus(expiry, clock)]
    /\ badge' = NoBadge
    /\ UNCHANGED <<clock, expiry>>
    /\ UNCHANGED <<schedVars, listVars, fetchVars, applied, extraVars>>

\* <ExpiryBadge expiryDate={...}/>: getExpiryStatus and getDaysUntilExpiry
\* each read new Date(); a millisecond may pass between the two reads
ExpiryBadge ==
    \E now2 \in {clock, clock + 1} :
        LET now1 == clock
            st == getExpiryStatus(expiry, now1)
            dy == getDaysUntilExpiry(expiry, now2)
        IN /\ now2 \in {clock, NextInstant(clock)}
           /\ now2 <= MaxClock
           /\ clock' = now2
           /\ badge' = [shown |-> st # "none", status |-> st, days |-> dy,
                        now1 |-> now1, now2 |-> now2]
           /\ call' = NoCall
           /\ UNCHANGED expiry
           /\ UNCHANGED <<schedVars, listVars, fetchVars, applied, extraVars>>

NextClassify ==
    \/ ClockAdvance
    \/ SelectExpiry
    \/ CallGetDaysUntilExpiry
    \/ CallGetExpiryStatus
    \/ ExpiryBadge

SpecClassify == InitClassify /\ [][NextClassify]_vars

----------------------------------------------------------------------------
(* Properties of the classifier *)

Statuses == {"none", "expired", "expiring", "fresh"}

\* expiryDate - now of an evaluation on a date, in milliseconds
DiffOf(c) == DateParse(c.expiry).v - c.now

\* the ceiling of diff in whole days, characterised without division
CeilDays(diff) ==
    CHOOSE n \in -(MaxDay + 2)..(MaxDay + 2) :
        (n - 1) * MsPerDay < diff /\ diff <= n * MsPerDay

\* C1: for every expiry date and every now, the status is expired exactly
\* when daysRemaining <= 0, expiring exactly when 0 < daysRemaining <= 3 and
\* fresh exactly when daysRemaining > 3; every date d <= now is expired.
C1_Thresholds ==
    (call.fn = "status" /\ call.expiry.k = "date") =>
        LET r == CeilDays(DiffOf(call)) IN
        /\ (call.status = "expired") <=> (r <= 0)
        /\ (call.status = "expiring") <=> (0 < r /\ r <= 3)
        /\ (call.status = "fresh") <=> (r > 3)
        /\ (DiffOf(call) <= 0) => (call.status = "expired")

\* an expiry date exactly equal to now has been classified
C1_Witness ==
    /\ call.fn = "status" /\ call.expiry.k = "date"
    /\ DiffOf(call) = 0
    /\ call.status = "expired"

\* C2: the day count is the ceiling of (expiryDate - now) in whole days:
\* less than a day ahead gives 1, exactly now gives 0, less than a day
\* past gives 0.
C2_Ceiling ==
    (call.fn \in {"days", "status"} /\ call.expiry.k = "date") =>
        LET diff == DiffOf(call) IN
        /\ call.days = Num(CeilDays(diff))
        /\ (0 < diff /\ diff < MsPerDay) => call.days = Num(1)
        /\ (diff = 0) => call.days = Num(0)
        /\ (-MsPerDay < diff /\ diff < 0) => call.days = Num(0)

\* an item expiring in two hours has been given one day
C2_Witness ==
    /\ call.fn = "days" /\ call.expiry.k = "date"
    /\ DiffOf(call) = 2 * ClockStep
    /\ call.days = Num(1)

\* C3: the status is none if and only if the expiry date is absent; a
\* present value, parseable or not, gets one of the other three statuses.
C3_NoneIffAbsent ==
    (call.fn = "status") =>
        /\ call.status \in Statuses
        /\ (call.status = "none") <=> (call.expiry \in {NullDate, EmptyDate})

\* a value that is no date has been classified, and not as none
C3_Witness ==
    /\ call.fn = "status"
    /\ call.expiry = BadDate
    /\ call.status = "fresh"

\* C4: the status and the day count that ExpiryBadge reports together come
\* from one and the same now, so the status agrees with the day count under
\* the threshold rules.
C4_BadgeConsistent ==
    (badge.shown /\ expiry.k = "date") =>
        /\ (badge.status = "expired") <=> (badge.days.v <= 0)
        /\ (badge.status = "expiring") <=>
               (0 < badge.days.v /\ badge.days.v <= 3)
        /\ (badge.status = "fresh") <=> (badge.days.v > 3)

----------------------------------------------------------------------------
(* Properties of the refresh scheduler *)

\* C5: the scheduler never has two notification refreshes in flight at the
\* same time, whether started by the mount effect or by a tick.
C5_NoOverlap == Len(notifReqs) <= 1

\* a tick has started a refresh, which is the only one in flight
C5_Witness ==
    /\ ticks >= 1
    /\ Len(notifReqs) = 1
    /\ notifReqs[1].id = ticks + 1

\* C8: the first notification refresh is started by the mount effect itself,
\* at time zero, before and independently of the first period elapsing.
C8_FirstImmediately ==
    /\ (phase # "init") => runs >= 1
    /\ (phase # "init" /\ ticks = 0) => runs = 1

\* right after mounting, no time passed, the first refresh is in flight
C8_Witness ==
    /\ phase = "mounted"
    /\ elapsed = 0
    /\ ticks = 0
    /\ runs = 1
    /\ Len(notifReqs) = 1

\* C9: while the scheduler runs, a refresh is started at every period
\* boundary, whatever the earlier refreshes took or returned: the k-th tick
\* happens exactly k periods after mounting, the timer stays armed, and a
\* due tick is never held back.
C9_StrictlyPeriodic ==
    (phase = "mounted") =>
        /\ interval
        /\ elapsed = ticks * Period + sinceTick
        /\ runs = 1 + ticks
        /\ (sinceTick = Period) => ENABLED Tick

\* the second tick has started its refresh after an earlier refresh failed
C9_Witness ==
    /\ phase = "mounted"
    /\ ticks = 2
    /\ runs = 3
    /\ Len(notifReqs) = 1
    /\ console # {}

\* C10: once the cleanup has run, no further refresh is started and no
\* timer remains armed.
C10_Stoppable ==
    [][(phase = "unmounted") =>
          (runs' = runs /\ ticks' = ticks /\ ~interval /\ ~interval')]_vars

\* after the cleanup a whole period has passed without a new refresh
C10_Witness ==
    /\ phase = "unmounted"
    /\ ~interval
    /\ elapsed >= (ticks + 1) * Period
    /\ runs = ticks + 1

----------------------------------------------------------------------------
(* Properties of the failure handling *)

Lists == <<notifications, inventory, recipes, challenges, deals, wasteItems>>

\* a fetch from the store fails
FetchFailure ==
    \/ \E k \in MountKinds : FetchFail(k)
    \/ FetchNotificationsFail
    \/ RescueFail

\* C6: a failed fetch leaves every displayed collection exactly as it was.
C6_FailureKeepsState == [][FetchFailure => (Lists' = Lists)]_vars

\* the number of failure notices shown so far
RECURSIVE SumToasts(_)
SumToasts(ms) ==
    IF ms = {} THEN 0
    ELSE LET m == CHOOSE x \in ms : TRUE IN toasts[m] + SumToasts(ms \ {m})

\* C7: every failed request surfaces a failure toast.
C7_FailureToasts ==
    [][FetchFailure => (SumToasts(Messages)' = SumToasts(Messages) + 1)]_vars

----------------------------------------------------------------------------
(* Properties of the alert list *)

\* C11: every tick sends a new request to the store; a successful refresh
\* replaces the displayed alert list by the response as a whole; and the
\* list is never set from an earlier request after a later one was applied.
C11_LatestSnapshot ==
    /\ []((phase = "mounted" /\ applied.id > 0) =>
              notifications = applied.data)
    /\ [][Tick => (/\ Len(notifReqs') = Len(notifReqs) + 1
                   /\ notifReqs'[Len(notifReqs')].id = runs + 1
                   /\ notifReqs'[Len(notifReqs')].id > applied.id)]_vars
    /\ [][applied'.id >= applied.id]_vars

\* the response of a tick's request has replaced a non-empty earlier list
C11_Witness ==
    /\ phase = "mounted"
    /\ applied.id = 3
    /\ notifications = <<2>>
    /\ ticks = 2

----------------------------------------------------------------------------
(* Properties of the item form *)

\* the create and update requests in flight
ItemWrites ==
    {writeReqs[i] : i \in {j \in DOMAIN writeReqs :
                               writeReqs[j].method \in {"POST", "PUT"}}}

\* a step sends a write request
Sends(method) ==
    /\ Len(writeReqs') = Len(writeReqs) + 1
    /\ writeReqs'[Len(writeReqs')].method = method

\* C13: an item's added_date is set at creation and never changes: no edit
\* of an existing item sends the store a different added_date for it.
C13_AddedDateKept ==
    [][Sends("PUT") =>
          writeReqs'[Len(writeReqs')].item.added_date
              = selectedItem.added_date]_vars

\* C14: every waste record posted names a displayed inventory item and
\* carries a quantity of at least 1 and at most that item's quantity.
C14_WasteWithinItem ==
    [][handleAddWaste =>
          LET w == wasteReqs'[Len(wasteReqs')] IN
              /\ w.quantity.k = "num"
              /\ w.quantity.v >= 1
              /\ \E j \in DOMAIN inventory :
                     /\ inventory[j].id = w.item_id
                     /\ w.quantity.v <= inventory[j].quantity.v]_vars

\* C15: every create or update request carries a quantity that is a number
\* and at least 1, and so does every item of the store.
C15_QuantityAtLeastOne ==
    /\ \A w \in ItemWrites : w.item.quantity.k = "num" /\ w.item.quantity.v >= 1
    /\ \A j \in DOMAIN srvItems : srvItems[j].quantity.v >= 1

\* a required field of the form is missing
Missing(f) == Trim(f.name) = <<>> \/ f.quantity = <<>>
                 \/ f.unit \notin Units \/ f.category \notin Categories

\* C16: a submission with a required field missing is rejected before
\* anything else happens: no request is sent, nothing displayed changes, and
\* no item with a missing or made-up field reaches the store.
C16_MissingFieldRejected ==
    /\ [](\A w \in ItemWrites :
             /\ Trim(w.item.name) # <<>>
             /\ w.item.quantity.k = "num"
             /\ w.item.unit \in Units
             /\ w.item.category \in Categories)
    /\ [][(showAddModal /\ Missing(itemForm)) =>
              (~Sends("POST") /\ ~Sends("PUT"))]_vars
    /\ [][(toasts'["Please enter item name"] # toasts["Please enter item name"])
              => UNCHANGED <<writeReqs, srvItems, inventory, itemForm,
                             selectedItem, showAddModal>>]_vars

\* a blank name was submitted and turned down, and nothing was sent
C16_Witness ==
    /\ showAddModal
    /\ itemForm.name = <<" ">>
    /\ toasts["Please enter item name"] = 1
    /\ nWrites = 0

\* C20: between an opening of the item modal and its next closing at most
\* one create or update request is sent.
C20_OneWritePerOpening == sentSinceOpen <= 1

\* C19: sample data is added only to an empty collection: a collection the
\* store already held when the app mounted is never increased by
\* initializeSampleData.
C19_SamplesOnlyIfEmpty ==
    \A k \in {"recipes", "challenges", "deals"} :
        (sample.pc # "off" /\ srvAtMount[k] > 0) => srvCounts[k] = srvAtMount[k]

----------------------------------------------------------------------------
(* Properties of the alerts *)

\* no request of any kind is in flight
Quiet ==
    /\ \A k \in Kinds : inflight[k] = 0
    /\ notifReqs = <<>>
    /\ writeReqs = <<>>
    /\ wasteReqs = <<>>
    /\ sample.pc # "post"

\* the alerts on display: notifications.slice(0, 3)
ShownAlerts ==
    SubSeq(notifications, 1, IF Len(notifications) < 3 THEN Len(notifications) ELSE 3)

\* C12: whenever no request is in flight, every displayed alert names an
\* item of the displayed inventory; in particular no displayed alert names
\* an item that was deleted and is gone from the reloaded inventory.
C12_AlertsNameDisplayedItems ==
    Quiet =>
        \A i \in DOMAIN ShownAlerts :
            \E j \in DOMAIN inventory :
                inventory[j].id = ShownAlerts[i].itemId

\* daysRemaining of a stored item at the store's clock, by CeilDays
DaysLeft(item) == CeilDays(DateParse(item.expiry_date).v - clock)

\* C17: the alert list for the store's snapshot holds exactly one alert for
\* each item with an expiry date and daysRemaining <= 3 and none for any
\* other item; the urgency is high when daysRemaining <= 1, else medium.
C17_OneAlertPerAtRiskItem ==
    LET out == Generate(srvItems, clock) IN
    /\ \A j \in DOMAIN srvItems :
           LET item == srvItems[j]
               mine == {i \in DOMAIN out : out[i].itemId = item.id}
               atRisk == item.expiry_date.k = "date" /\ DaysLeft(item) <= 3
           IN  /\ Cardinality(mine) = IF atRisk THEN 1 ELSE 0
               /\ \A i \in mine :
                      out[i].urgency
                          = IF DaysLeft(item) <= 1 THEN "high" ELSE "medium"
    /\ \A i \in DOMAIN out :
           \E j \in DOMAIN srvItems : srvItems[j].id = out[i].itemId

\* the response on display was computed from the store as it is: an item
\* expiring exactly now has the one alert, of high urgency, and a fresh
\* item has none
C17_Witness ==
    /\ phase = "mounted"
    /\ applied.id > 0
    /\ notifications = Generate(srvItems, clock)
    /\ Len(srvItems) = 2
    /\ srvItems[1].expiry_date = DateStr(NowDay, 0)
    /\ clock = NowDay * MsPerDay
    /\ srvItems[2].expiry_date = DateStr(NowDay + 4, 0)
    /\ Len(notifications) = 1
    /\ notifications[1].itemId = 1
    /\ notifications[1].urgency = "high"

----------------------------------------------------------------------------
(* Properties of the rescue recipes *)

\* c and d are the same letter up to case, or the same character
SameLetter(c, d) ==
    \/ c = d
    \/ \E i \in DOMAIN UpperCase :
           {c, d} = {UpperCase[i], LowerCase[i]}

\* a and b are equal once the blanks around them are dropped, letter by
\* letter up to case
SameName(a, b) ==
    \E i \in 0..Len(a), j \in 0..Len(b), n \in 0..Len(a) :
        /\ i + n <= Len(a)
        /\ j + n <= Len(b)
        /\ \A k \in 1..i : a[k] = " "
        /\ \A k \in (i + n + 1)..Len(a) : a[k] = " "
        /\ \A k \in 1..j : b[k] = " "
        /\ \A k \in (j + n + 1)..Len(b) : b[k] = " "
        /\ n > 0 => a[i + 1] # " " /\ a[i + n] # " "
                         /\ b[j + 1] # " " /\ b[j + n] # " "
        /\ \A k \in 1..n : SameLetter(a[i + k], b[j + k])

\* the stored item is expired or expiring, by CeilDays
ItemAtRisk(item) == item.expiry_date.k = "date" /\ DaysLeft(item) <= 3

\* the recipe has an ingredient that names an item at risk
SharesAtRisk(recipe) ==
    \E j \in DOMAIN srvItems, k \in DOMAIN recipe.ingredients :
        ItemAtRisk(srvItems[j]) /\ SameName(srvItems[j].name, recipe.ingredients[k])

\* C18: the rescue result holds exactly the catalog recipes that share an
\* ingredient, trimmed and case-insensitive, with an expired or expiring
\* item, each once; it is empty when the inventory or the catalog is empty
\* or no item is at risk.
C18_RescueExactlySharing ==
    LET out == Match(srvItems, srvRecipes, clock) IN
    /\ \A r \in DOMAIN srvRecipes :
           Cardinality({i \in DOMAIN out : out[i].id = srvRecipes[r].id})
               = IF SharesAtRisk(srvRecipes[r]) THEN 1 ELSE 0
    /\ \A i \in DOMAIN out :
           \E r \in DOMAIN srvRecipes :
               /\ srvRecipes[r].id = out[i].id
               /\ srvRecipes[r].ingredients = out[i].ingredients
    /\ (srvItems = <<>> \/ srvRecipes = <<>>
           \/ \A j \in DOMAIN srvItems : ~ItemAtRisk(srvItems[j]))
          => out = <<>>

\* the rescue button brought the one recipe that shares " e" / "E " with the
\* item expiring today and left out the recipe that shares nothing
C18_Witness ==
    /\ rescues > 0
    /\ inflight["rescue"] = 0
    /\ toasts[FailureToast("rescue")] = 0
    /\ Len(srvItems) = 1
    /\ srvItems[1].name = <<" ", "e">>
    /\ srvItems[1].expiry_date = DateStr(NowDay, 0)
    /\ Len(srvRecipes) = 2
    /\ srvRecipes[1].ingredients = <<<<"x">>>>
    /\ srvRecipes[2].ingredients = <<<<"E", " ">>, <<"m">>>>
    /\ Len(recipes) = 1
    /\ recipes[1].id = 2
    /\ recipes[1].expiringIngredients = <<<<"E", " ">>>>

----------------------------------------------------------------------------
(* Properties of a submission *)

\* C22: a submission with a non-blank name sends exactly one write: a PUT
\* to the id of the selected item when one is selected, else a POST that
\* creates an item; and an item is selected only while the modal is open.
C22_OneWriteToSelected ==
    /\ [](~showAddModal => selectedItem = NoItem)
    /\ [][(handleAddItem /\ Trim(itemForm.name) # <<>>) =>
              /\ Len(writeReqs') = Len(writeReqs) + 1
              /\ SubSeq(writeReqs', 1, Len(writeReqs)) = writeReqs
              /\ LET w == writeReqs'[Len(writeReqs')] IN
                     IF selectedItem # NoItem
                         THEN w.method = "PUT" /\ w.id = selectedItem.id
                         ELSE w.method = "POST"]_vars

\* an edit was submitted: the one request in flight is the PUT to the
\* selected item
C22_Witness ==
    /\ showAddModal
    /\ selectedItem # NoItem
    /\ Len(writeReqs) = 1
    /\ writeReqs[1].method = "PUT"
    /\ writeReqs[1].id = selectedItem.id

----------------------------------------------------------------------------
(* Properties of the reload *)

\* C21: once every request has completed, none of the inventory fetches
\* having failed, the displayed inventory is the store's inventory: the
\* response of an older reload never replaces that of a newer one.
C21_ReloadShowsStore ==
    (/\ phase = "mounted"
     /\ Quiet
     /\ invResp = <<>>
     /\ toasts[FailureToast("inventory")] = 0)
        => inventory = srvItems

----------------------------------------------------------------------------
(* Properties of the barcode scan *)

\* C23: whatever the outcome of the lookup, a scan ends with loading false,
\* the camera modal closed and the item modal open; loading never stays
\* true; and a lookup that returns no product leaves the name, the category
\* and the barcode of the item form as they were.
C23_ScanEndsAlike ==
    /\ [][LookupSettles =>
              (~loading' /\ ~showCameraModal' /\ showAddModal')]_vars
    /\ [][(LookupNotFound \/ LookupFail) =>
              (/\ itemForm'.name = itemForm.name
               /\ itemForm'.category = itemForm.category
               /\ itemForm'.barcode = itemForm.barcode)]_vars
    /\ [](loading => barcodeReqs # <<>>)
    /\ loading ~> ~loading

\* a lookup failed while a name was being typed: the name is kept, the
\* overlay is gone, the camera modal closed and the item modal open
C23_Witness ==
    /\ toasts["Failed to lookup barcode"] = 1
    /\ barcodeReqs = <<>>
    /\ ~loading
    /\ ~showCameraModal
    /\ showAddModal
    /\ itemForm.name = <<"M">>
    /\ itemForm.barcode = <<>>

====
